---- MODULE Spec2Model ----
(***************************************************************************)
(* Model of the experiment controller of fast-coref                        *)
(* (src/src/auto_memory_model/experiment.py, class Experiment): the        *)
(* training / checkpoint state machine, early stopping, resume from the    *)
(* "last" checkpoint, the load of the "best" checkpoint and the final      *)
(* evaluation with the optional external (CoNLL) scorer.                   *)
(*                                                                         *)
(* Numbers: scores (fscore, val_perf) are integers standing for the        *)
(* rounded percentages the code handles; optimizer, scheduler, scaler and  *)
(* weight states are the number of updates applied to them; an RNG state   *)
(* is an integer modulo RngMod that every draw advances.                   *)
(***************************************************************************)
EXTENDS Integers, Sequences, FiniteSets, TLC

(***************************************************************************)
(* Bounds of the model                                                     *)
(***************************************************************************)
MaxPatience == 2
MaxEvalPerK == 2
MaxEvals == 2
MaxPool == 2
MaxRestarts == 1
RngMod == 3

(* configuration values that are fixed in the model *)
update_frequency == 2
seed == 2

(* the value None of an optional integer setting *)
None == -1

(***************************************************************************)
(* Configuration (kwargs of Experiment.__init__)                           *)
(***************************************************************************)
Datasets == <<"litbank", "ontonotes">>

DatasetSet == {Datasets[i] : i \in 1..Len(Datasets)}

(* per-dataset dev fscores the evaluator can return; even values, so that   *)
(* the mean over the two datasets is exact                                 *)
Scores == {0, 2}

(* per-dataset test fscores of the final evaluation *)
TestScores == {2}

Configs == [patience : 1..MaxPatience, eval_per_k_steps : {None} \cup (1..MaxEvalPerK), max_evals : 1..MaxEvals, finetune : BOOLEAN, to_save_model : BOOLEAN, pool : {0, MaxPool}]

(***************************************************************************)
(* State                                                                   *)
(***************************************************************************)
VARIABLES
    cfg,            \* model_args: the configuration, the same for every run
    eval_model,     \* the eval_model switch of the current run
    pc,             \* position of the controller
    error,          \* the exception that ended the run, "" if none
    self,           \* fields of the Experiment object
    last_file,      \* model_path on disk: <<>> or <<checkpoint>>
    best_file,      \* best_model_path on disk: <<>> or <<checkpoint>>
    train_data,     \* the shuffled pool of the current epoch
    pos,            \* number of examples of train_data already processed
    step,           \* what the last handle_example did
    fscore,         \* the value returned by the last periodic_model_eval
    report,         \* what the final evaluation produced
    conll_calls,    \* number of invocations of the external scorer
    last_op,        \* the operation that produced the current state
    restarts,       \* number of process restarts so far
    saved,          \* controller values at the last save_model(model_path)
    ref,            \* the uninterrupted continuation of an interrupted run
    absent_losses,  \* number of examples so far whose total loss was None
    ev_pc,          \* position inside one call of evaluate_model
    ev_threshold,   \* the cluster_threshold of that call
    ev_docs,        \* number of examples of the split evaluated so far
    ev_runs,        \* the accumulators of two evaluations that differ in gt_actions only
    ev_handed,      \* the last example: what the model returned, what the evaluators were handed
    ev_out          \* the result record and periodic_model_eval's outcome, per evaluation

vars == <<cfg, eval_model, pc, error, self, last_file, best_file, train_data, pos, step, fscore, report, conll_calls, last_op, restarts, saved, ref, absent_losses, ev_pc, ev_threshold, ev_docs, ev_runs, ev_handed, ev_out>>

evalvars == <<ev_pc, ev_threshold, ev_docs, ev_runs, ev_handed, ev_out>>

EmptyFn == [k \in {} |-> 0]

Range(s) == {s[i] : i \in 1..Len(s)}

(* Experiment.__init__, line 54 *)
InitTrainInfo == [val_perf |-> 0, global_steps |-> 0, num_stuck_evals |-> 0]

(* Experiment.__init__, lines 47-54: the object before setup; the          *)
(* generators of a new process are not seeded yet                          *)
InitSelf == [model |-> EmptyFn, optimizer |-> EmptyFn, optim_scheduler |-> EmptyFn, scaler |-> 0, train_info |-> InitTrainInfo, rng_state |-> 0, np_rng_state |-> 0, eval_per_k_steps |-> None, num_training_steps |-> 0]

NoStep == [loss |-> "na", ops |-> <<>>, example |-> 0]

NoReport == [done |-> FALSE, path_exists |-> [d \in DatasetSet |-> FALSE], internal |-> [d \in DatasetSet |-> 0], raised |-> [d \in DatasetSet |-> ""], result |-> EmptyFn]

NoRef == [on |-> FALSE, order |-> <<>>, pos |-> 0, np_rng_state |-> 0, example |-> 0]

NoSaved == [train_info |-> InitTrainInfo, rng_state |-> 0, np_rng_state |-> 0, absent_losses |-> 0]

(***************************************************************************)
(* Model weights                                                           *)
(***************************************************************************)
(* keys of model.state_dict(): the encoder's ('lm_encoder.' prefix) and    *)
(* the task parameters                                                     *)
ModelKeys == {"lm_encoder.", "task"}

(* save_model, line 462: 'lm_encoder.' in key *)
IsEncoderKey(k) == k = "lm_encoder."

(* pick_controller(...): a freshly constructed model, pretrained encoder *)
pick_controller == [k \in ModelKeys |-> 0]

(* model.load_state_dict(state_dict, strict): strict raises on a missing   *)
(* or an unexpected key; otherwise the keys both sides have are copied     *)
load_state_dict(model, state_dict, strict) ==
    LET missing == DOMAIN model \ DOMAIN state_dict
        unexpected == DOMAIN state_dict \ DOMAIN model
    IN  IF strict /\ (missing # {} \/ unexpected # {})
        THEN [ok |-> FALSE, model |-> model]
        ELSE [ok |-> TRUE, model |-> [k \in DOMAIN model |-> IF k \in DOMAIN state_dict THEN state_dict[k] ELSE model[k]]]

(***************************************************************************)
(* Optimizer / scheduler groups                                            *)
(***************************************************************************)
(* save_model, line 475 *)
param_groups(finetune) == IF finetune THEN <<"mem", "doc">> ELSE <<"mem">>

(* iteration order of the optimizer dict: insertion order, lines 173, 190 *)
OptimizerKeys(s) == IF "doc" \in DOMAIN s.optimizer THEN <<"mem", "doc">> ELSE <<"mem">>

(* initialize_optimizers: seeds, a new scaler, one optimizer and one       *)
(* scheduler per group                                                     *)
initialize_optimizers(s, finetune) ==
    LET groups == Range(param_groups(finetune))
    IN  [s EXCEPT !.rng_state = seed, !.np_rng_state = seed, !.scaler = 0,
                  !.optimizer = [g \in groups |-> 0],
                  !.optim_scheduler = [g \in groups |-> 0]]

(***************************************************************************)
(* Checkpoints                                                             *)
(***************************************************************************)
(* save_model with the numeric RNG state taken from the global generator *)
save_model_TorchRngTwice(s, model_type, model_args) ==
    LET finetune == model_args.finetune
        kept == IF finetune THEN DOMAIN s.model ELSE {k \in DOMAIN s.model : ~IsEncoderKey(k)}
        groups == IF model_type # "best" THEN Range(param_groups(finetune)) ELSE {}
    IN  [train_info |-> s.train_info,
         model |-> [k \in kept |-> s.model[k]],
         scaler |-> s.scaler,
         rng_state |-> s.rng_state,
         np_rng_state |-> s.rng_state,
         optimizer |-> [g \in groups |-> s.optimizer[g]],
         scheduler |-> [g \in groups |-> s.optim_scheduler[g]],
         model_args |-> model_args]

(* save_model that stores optimizer and scheduler state whatever the     *)
(* model_type                                                              *)
save_model_OptimizerAlways(s, model_type, model_args) ==
    LET finetune == model_args.finetune
        kept == IF finetune THEN DOMAIN s.model ELSE {k \in DOMAIN s.model : ~IsEncoderKey(k)}
        groups == Range(param_groups(finetune))
    IN  [train_info |-> s.train_info,
         model |-> [k \in kept |-> s.model[k]],
         scaler |-> s.scaler,
         rng_state |-> s.rng_state,
         np_rng_state |-> s.np_rng_state,
         optimizer |-> [g \in groups |-> s.optimizer[g]],
         scheduler |-> [g \in groups |-> s.optim_scheduler[g]],
         model_args |-> model_args]

(* save_model: the payload written to location *)
save_model(s, model_type, model_args) ==
    LET finetune == model_args.finetune
        kept == IF finetune THEN DOMAIN s.model ELSE {k \in DOMAIN s.model : ~IsEncoderKey(k)}
        groups == IF model_type # "best" THEN Range(param_groups(finetune)) ELSE {}
    IN  [train_info |-> s.train_info,
         model |-> [k \in kept |-> s.model[k]],
         scaler |-> s.scaler,
         rng_state |-> s.rng_state,
         np_rng_state |-> s.np_rng_state,
         optimizer |-> [g \in groups |-> s.optimizer[g]],
         scheduler |-> [g \in groups |-> s.optim_scheduler[g]],
         model_args |-> model_args]

(* load_model that does not read the RNG states of the checkpoint *)
load_model_raises_RngOptional(checkpoint) == ""

(* load_model, lines 454-455: checkpoint['rng_state'] and                  *)
(* checkpoint['np_rng_state'] raise KeyError when the key is missing       *)
load_model_raises(checkpoint) ==
    IF "rng_state" \notin DOMAIN checkpoint THEN "KeyError"
    ELSE IF "np_rng_state" \notin DOMAIN checkpoint THEN "KeyError"
    ELSE ""

(* load_model without the test of model_type: the scaler (and any          *)
(* optimizer state the checkpoint holds) is restored for 'best' too        *)
load_model_AnyType(s, checkpoint, model_type) ==
    LET weights == load_state_dict(s.model, checkpoint.model, FALSE).model
        s1 == [s EXCEPT !.model = weights]
        s2 == [s1 EXCEPT !.optimizer = [g \in DOMAIN s1.optimizer |-> IF g \in DOMAIN checkpoint.optimizer THEN checkpoint.optimizer[g] ELSE s1.optimizer[g]],
                         !.optim_scheduler = [g \in DOMAIN s1.optim_scheduler |-> IF g \in DOMAIN checkpoint.optimizer THEN checkpoint.scheduler[g] ELSE s1.optim_scheduler[g]],
                         !.scaler = checkpoint.scaler]
    IN  [s2 EXCEPT !.train_info = checkpoint.train_info,
                   !.rng_state = IF "rng_state" \in DOMAIN checkpoint THEN checkpoint.rng_state ELSE s.rng_state,
                   !.np_rng_state = IF {"rng_state", "np_rng_state"} \subseteq DOMAIN checkpoint THEN checkpoint.np_rng_state ELSE s.np_rng_state]

(* load_model: weights (lenient), optimizer/scheduler/scaler unless        *)
(* model_type is 'best', then train_info and both RNG states; the object   *)
(* as the statements executed before a KeyError of lines 454-455 leave it  *)
load_model(s, checkpoint, model_type) ==
    LET weights == load_state_dict(s.model, checkpoint.model, FALSE).model
        s1 == [s EXCEPT !.model = weights]
        s2 == IF model_type # "best"
              THEN [s1 EXCEPT !.optimizer = [g \in DOMAIN s1.optimizer |-> IF g \in DOMAIN checkpoint.optimizer THEN checkpoint.optimizer[g] ELSE s1.optimizer[g]],
                              !.optim_scheduler = [g \in DOMAIN s1.optim_scheduler |-> IF g \in DOMAIN checkpoint.optimizer THEN checkpoint.scheduler[g] ELSE s1.optim_scheduler[g]],
                              !.scaler = checkpoint.scaler]
              ELSE s1
    IN  [s2 EXCEPT !.train_info = checkpoint.train_info,
                   !.rng_state = IF "rng_state" \in DOMAIN checkpoint THEN checkpoint.rng_state ELSE s.rng_state,
                   !.np_rng_state = IF {"rng_state", "np_rng_state"} \subseteq DOMAIN checkpoint THEN checkpoint.np_rng_state ELSE s.np_rng_state]

(***************************************************************************)
(* Random number generators                                                *)
(***************************************************************************)
(* the state of a generator after n draws *)
Advance(rng, n) == (rng + n) % RngMod

(* np.random.shuffle(list): a permutation fixed by the generator's state   *)
(* (here the rotation by that state), one draw per position but the last   *)
Shuffled(list, rng) ==
    LET n == Len(list)
    IN  [i \in 1..n |-> list[((i - 1 + rng) % n) + 1]]

ShuffleDraws(list) == IF Len(list) > 1 THEN Len(list) - 1 ELSE 0

(* train, lines 205-210: the pool of one epoch, shuffled *)
EpochData(pool, rng) == Shuffled([i \in 1..pool |-> i], rng)

(***************************************************************************)
(* One training step                                                       *)
(***************************************************************************)
OpsOver(op, keys) == [i \in 1..Len(keys) |-> <<op, keys[i]>>]

StepOps(keys) == [i \in 1..(2 * Len(keys)) |-> IF i % 2 = 1 THEN <<"optimizer.step", keys[(i + 1) \div 2]>> ELSE <<"scheduler.step", keys[i \div 2]>>]

(* handle_example without the early return: the schedulers and the scaler  *)
(* are stepped for an absent loss too                                      *)
handle_example_NoEarlyReturn(s, absent) ==
    LET keys == OptimizerKeys(s)
        s1 == [s EXCEPT !.train_info.global_steps = @ + 1, !.rng_state = Advance(@, 1)]
        ops1 == OpsOver("zero_grad", keys) \o <<<<"forward", "">>>>
    IN  IF absent
        THEN [self |-> [s1 EXCEPT !.optim_scheduler = [g \in DOMAIN @ |-> @[g] + 1], !.scaler = @ + 1],
              loss |-> "None",
              ops |-> ops1 \o OpsOver("scheduler.step", keys) \o <<<<"scaler.update", "">>>>]
        ELSE [self |-> [s1 EXCEPT !.optimizer = [g \in DOMAIN @ |-> @[g] + 1],
                                  !.optim_scheduler = [g \in DOMAIN @ |-> @[g] + 1],
                                  !.scaler = @ + 1,
                                  !.model = [k \in DOMAIN @ |-> IF (IsEncoderKey(k) /\ "doc" \in DOMAIN s.optimizer) \/ (~IsEncoderKey(k)) THEN @[k] + 1 ELSE @[k]]],
              loss |-> "value",
              ops |-> ops1 \o <<<<"backward", "">>>> \o OpsOver("unscale_", keys)
                      \o <<<<"clip_grad_norm_", "encoder_params">>, <<"clip_grad_norm_", "task_params">>>>
                      \o StepOps(keys) \o <<<<"scaler.update", "">>>>]

(* handle_example that clips the gradients after the optimizers stepped *)
handle_example_ClipAfterStep(s, absent) ==
    LET keys == OptimizerKeys(s)
        s1 == [s EXCEPT !.train_info.global_steps = @ + 1, !.rng_state = Advance(@, 1)]
        ops1 == OpsOver("zero_grad", keys) \o <<<<"forward", "">>>>
    IN  IF absent
        THEN [self |-> s1, loss |-> "None", ops |-> ops1]
        ELSE [self |-> [s1 EXCEPT !.optimizer = [g \in DOMAIN @ |-> @[g] + 1],
                                  !.optim_scheduler = [g \in DOMAIN @ |-> @[g] + 1],
                                  !.scaler = @ + 1,
                                  !.model = [k \in DOMAIN @ |-> IF (IsEncoderKey(k) /\ "doc" \in DOMAIN s.optimizer) \/ (~IsEncoderKey(k)) THEN @[k] + 1 ELSE @[k]]],
              loss |-> "value",
              ops |-> ops1 \o <<<<"backward", "">>>> \o OpsOver("unscale_", keys)
                      \o StepOps(keys)
                      \o <<<<"clip_grad_norm_", "encoder_params">>, <<"clip_grad_norm_", "task_params">>>>
                      \o <<<<"scaler.update", "">>>>]

(* train.handle_example, lines 215-238; absent: forward_training returned  *)
(* no total loss                                                           *)
handle_example(s, absent) ==
    LET keys == OptimizerKeys(s)
        s1 == [s EXCEPT !.train_info.global_steps = @ + 1, !.rng_state = Advance(@, 1)]
        ops1 == OpsOver("zero_grad", keys) \o <<<<"forward", "">>>>
    IN  IF absent
        THEN [self |-> s1, loss |-> "None", ops |-> ops1]
        ELSE [self |-> [s1 EXCEPT !.optimizer = [g \in DOMAIN @ |-> @[g] + 1],
                                  !.optim_scheduler = [g \in DOMAIN @ |-> @[g] + 1],
                                  !.scaler = @ + 1,
                                  !.model = [k \in DOMAIN @ |-> IF (IsEncoderKey(k) /\ "doc" \in DOMAIN s.optimizer) \/ (~IsEncoderKey(k)) THEN @[k] + 1 ELSE @[k]]],
              loss |-> "value",
              ops |-> ops1 \o <<<<"backward", "">>>> \o OpsOver("unscale_", keys)
                      \o <<<<"clip_grad_norm_", "encoder_params">>, <<"clip_grad_norm_", "task_params">>>>
                      \o StepOps(keys) \o <<<<"scaler.update", "">>>>]

(* train, lines 242-247: the progress record formats example_loss with     *)
(* '{:.3f}', which raises TypeError for None                               *)
LogRaises(s, loss) == s.train_info.global_steps % update_frequency = 0 /\ loss = "None"

(* train, line 249 *)
EvalDue(s) == s.eval_per_k_steps # 0 /\ s.train_info.global_steps % s.eval_per_k_steps = 0

(* the stopping tests with > for >= on the patience *)
ShouldReturn_PastPatience(s, patience) == s.train_info.num_stuck_evals > patience \/ s.train_info.global_steps >= s.num_training_steps

(* train, lines 256-259 *)
ShouldReturn(s, patience) == s.train_info.num_stuck_evals >= patience \/ s.train_info.global_steps >= s.num_training_steps

(***************************************************************************)
(* Evaluation                                                              *)
(***************************************************************************)
(* Python values of different types never compare equal *)
PyInt(n) == [type |-> "int", val |-> n]

PyDict(d) == [type |-> "dict", val |-> d]

PyEq(a, b) == a.type = b.type /\ a.val = b.val

(* CANONICAL_CLUSTER_THRESHOLD of auto_memory_model.constants, as kept in  *)
(* self.canonical_cluster_threshold: a dict from dataset to threshold      *)
canonical_cluster_threshold == [d \in DatasetSet |-> IF d = "ontonotes" THEN 2 ELSE 1]

IndvMetrics == {"MUC", "Bcub", "CEAFE"}

(* evaluate_model, lines 357-368: the record built from the internal       *)
(* evaluators, whose recall, precision and f1 are the input m              *)
InternalResult(m) == [MUC |-> [recall |-> m, precision |-> m, fscore |-> m], Bcub |-> [recall |-> m, precision |-> m, fscore |-> m], CEAFE |-> [recall |-> m, precision |-> m, fscore |-> m], fscore |-> m]

(* what evaluate_conll returns: per metric (lower case) r, p and f *)
ConllResults(c) == [muc |-> [r |-> c, p |-> c, f |-> c], bcub |-> [r |-> c, p |-> c, f |-> c], ceafe |-> [r |-> c, p |-> c, f |-> c]]

(* evaluate_model, lines 386-393: the record overwritten from conll_results *)
ConllResult(cr) ==
    [MUC |-> [recall |-> cr.muc.r, precision |-> cr.muc.p, fscore |-> cr.muc.f],
     Bcub |-> [recall |-> cr.bcub.r, precision |-> cr.bcub.p, fscore |-> cr.bcub.f],
     CEAFE |-> [recall |-> cr.ceafe.r, precision |-> cr.ceafe.p, fscore |-> cr.ceafe.f],
     fscore |-> (cr.muc.f + cr.bcub.f + cr.ceafe.f) \div 3]

(* the f-scores the external scorer can return (odd: never an internal one) *)
ConllScores == {3}

(* how the external scorer can be set up: configured or None, on disk or not *)
ConllSetups == {[conll_scorer |-> TRUE, conll_data_dir |-> TRUE, scorer_exists |-> TRUE], [conll_scorer |-> FALSE, conll_data_dir |-> TRUE, scorer_exists |-> FALSE], [conll_scorer |-> TRUE, conll_data_dir |-> FALSE, scorer_exists |-> TRUE], [conll_scorer |-> TRUE, conll_data_dir |-> TRUE, scorer_exists |-> FALSE]}

(* evaluate_model, lines 375-377 *)
PathExistsBool(conll_scorer, conll_data_dir, scorer_exists, dir_exists) ==
    IF conll_scorer /\ conll_data_dir THEN scorer_exists /\ dir_exists ELSE FALSE

(* evaluate_model, line 373: the threshold (an int) is compared with the   *)
(* whole dict self.canonical_cluster_threshold                             *)
UseConll(cluster_threshold) == PyEq(PyInt(cluster_threshold), PyDict(canonical_cluster_threshold))

(* what a call of evaluate_conll can do: return its results, raise         *)
(* AttributeError (its output does not parse) or raise OSError (the scorer *)
(* cannot be run)                                                          *)
ConllOutcomes == {[raises |-> r, results |-> ConllResults(c)] : r \in {"", "AttributeError", "OSError"}, c \in ConllScores}

(* evaluate_model, lines 356-407: the result record, whether evaluate_conll *)
(* was invoked, and the exception that leaves evaluate_model, if any; the  *)
(* try block of lines 379-399 catches AttributeError alone                 *)
evaluate_model(m, final_eval, cluster_threshold, path_exists_bool, conll) ==
    IF final_eval /\ UseConll(cluster_threshold) /\ path_exists_bool
    THEN IF conll.raises = ""
         THEN [result_dict |-> ConllResult(conll.results), conll |-> 1, raised |-> conll.raises, error |-> ""]
         ELSE IF conll.raises = "AttributeError"
         THEN [result_dict |-> InternalResult(m), conll |-> 1, raised |-> conll.raises, error |-> ""]
         ELSE [result_dict |-> InternalResult(m), conll |-> 1, raised |-> conll.raises, error |-> conll.raises]
    ELSE [result_dict |-> InternalResult(m), conll |-> 0, raised |-> "", error |-> ""]

(* the exception of the first dataset, in order, whose evaluation raises *)
RECURSIVE FirstError(_, _)
FirstError(ev, seq) == IF seq = <<>> THEN "" ELSE IF ev[Head(seq)].error # "" THEN ev[Head(seq)].error ELSE FirstError(ev, Tail(seq))

RECURSIVE SumOver(_, _)
SumOver(f, seq) == IF seq = <<>> THEN 0 ELSE f[Head(seq)] + SumOver(f, Tail(seq))

(* the comparison with val_perf with >= for > *)
UpdateTrainInfo_OnTie(s, f) ==
    IF f >= s.train_info.val_perf
    THEN [self |-> [s EXCEPT !.train_info.num_stuck_evals = 0, !.train_info.val_perf = f], improved |-> TRUE]
    ELSE [self |-> [s EXCEPT !.train_info.num_stuck_evals = @ + 1], improved |-> FALSE]

(* periodic_model_eval, lines 273-282: the mean fscore against val_perf *)
UpdateTrainInfo(s, f) ==
    IF f > s.train_info.val_perf
    THEN [self |-> [s EXCEPT !.train_info.num_stuck_evals = 0, !.train_info.val_perf = f], improved |-> TRUE]
    ELSE [self |-> [s EXCEPT !.train_info.num_stuck_evals = @ + 1], improved |-> FALSE]

(* periodic_model_eval, lines 263-290: fscore_dict holds each dataset's    *)
(* dev fscore; returns the object, the two files and the mean              *)
periodic_model_eval(s, fscore_dict, model_args, best, last) ==
    LET f == SumOver(fscore_dict, Datasets) \div Len(Datasets)
        u == UpdateTrainInfo(s, f)
    IN  [self |-> u.self,
         fscore |-> f,
         best |-> IF u.improved THEN <<save_model(u.self, "best", model_args)>> ELSE best,
         last |-> IF model_args.to_save_model THEN <<save_model(u.self, "last", model_args)>> ELSE last]

(***************************************************************************)
(* Set-up                                                                  *)
(***************************************************************************)
(* setup_training, lines 134-142; train_info has no key 'evals', so the    *)
(* third test raises KeyError when eval_per_k_steps is 0                   *)
FurtherTraining(s, patience) ==
    IF s.train_info.num_stuck_evals >= patience THEN "no"
    ELSE IF s.eval_per_k_steps # 0 /\ s.train_info.global_steps >= s.num_training_steps THEN "no"
    ELSE IF s.eval_per_k_steps = 0 THEN "KeyError"
    ELSE "yes"

(* setup_training, lines 115-142 *)
setup_training(s, model_args, last) ==
    LET k == IF model_args.eval_per_k_steps = None THEN model_args.pool ELSE model_args.eval_per_k_steps
        s1 == [s EXCEPT !.model = pick_controller, !.eval_per_k_steps = k, !.num_training_steps = k * model_args.max_evals]
        s2 == initialize_optimizers(s1, model_args.finetune)
        s3 == IF last # <<>> THEN load_model(s2, last[1], "last") ELSE s2
        raised == IF last # <<>> THEN load_model_raises(last[1]) ELSE ""
    IN  [self |-> s3, do_train |-> IF raised # "" THEN raised ELSE FurtherTraining(s3, model_args.patience)]

(* setup_eval, lines 144-164: torch.load of the best checkpoint, a new     *)
(* model, a strict restore of the weights                                  *)
setup_eval(s, best) ==
    IF best = <<>>
    THEN [self |-> s, error |-> "FileNotFoundError"]
    ELSE LET r == load_state_dict(pick_controller, best[1].model, TRUE)
         IN  IF r.ok
             THEN [self |-> [s EXCEPT !.model = r.model], error |-> ""]
             ELSE [self |-> [s EXCEPT !.model = pick_controller], error |-> "RuntimeError"]

(* "last" checkpoints as written before training started, without the     *)
(* global RNG state, the numeric RNG state or both: what load_model reads  *)
(* at lines 441, 454-455 when the file was not written by save_model       *)
Without(r, keys) == [f \in DOMAIN r \ keys |-> r[f]]

LegacyCheckpoints(model_args) ==
    LET s0 == initialize_optimizers([InitSelf EXCEPT !.model = pick_controller], model_args.finetune)
        full == save_model(s0, "last", model_args)
    IN  {Without(full, keys) : keys \in {{"rng_state"}, {"np_rng_state"}, {"rng_state", "np_rng_state"}}}

(***************************************************************************)
(* Initial state: a configuration, a process starting; on disk nothing, or *)
(* a "last" checkpoint that lacks RNG states                               *)
(***************************************************************************)
Init ==
    /\ cfg \in Configs
    /\ eval_model \in BOOLEAN
    /\ pc = "init"
    /\ error = ""
    /\ self = InitSelf
    /\ last_file \in {<<>>} \cup {<<c>> : c \in LegacyCheckpoints(cfg)}
    /\ best_file = <<>>
    /\ train_data = <<>>
    /\ pos = 0
    /\ step = NoStep
    /\ fscore = 0
    /\ report = NoReport
    /\ conll_calls = 0
    /\ last_op = "init"
    /\ restarts = 0
    /\ saved = NoSaved
    /\ ref = NoRef
    /\ absent_losses = 0
    /\ ev_pc = "off"
    /\ ev_threshold = 1
    /\ ev_docs = 0
    /\ ev_runs = <<>>
    /\ ev_handed = <<>>
    /\ ev_out = <<>>

(***************************************************************************)
(* Experiment.__init__, lines 29-71: set-up for training or evaluation     *)
(***************************************************************************)
Setup ==
    /\ pc = "init"
    /\ LET t == IF eval_model THEN [self |-> self, do_train |-> "no"] ELSE setup_training(self, cfg, last_file)
           e == setup_eval(t.self, best_file)
       IN  /\ self' = IF t.do_train = "no" THEN e.self ELSE t.self
           /\ error' = IF t.do_train = "KeyError" THEN "KeyError" ELSE IF t.do_train = "no" THEN e.error ELSE ""
           /\ pc' = IF error' # "" THEN "error" ELSE IF t.do_train = "yes" THEN "train" ELSE "final"
    /\ absent_losses' = IF ~eval_model /\ last_file # <<>> THEN saved.absent_losses ELSE 0
    /\ last_op' = "setup"
    /\ UNCHANGED <<cfg, eval_model, last_file, best_file, train_data, pos, step, fscore, report, conll_calls, restarts, saved, ref, evalvars>>

(***************************************************************************)
(* train, lines 201-212: a new epoch                                       *)
(***************************************************************************)
NextEpoch ==
    /\ pc = "train" \/ (pc = "loop" /\ pos = Len(train_data))
    /\ train_data' = EpochData(cfg.pool, self.np_rng_state)
    /\ self' = [self EXCEPT !.np_rng_state = Advance(@, ShuffleDraws(train_data'))]
    /\ pos' = 0
    /\ pc' = "loop"
    /\ last_op' = "next_epoch"
    /\ UNCHANGED <<cfg, eval_model, error, last_file, best_file, step, fscore, report, conll_calls, restarts, saved, ref, absent_losses, evalvars>>

(* the example the uninterrupted run processes next *)
RefStep(r, pool) ==
    IF r.pos = Len(r.order)
    THEN LET order == EpochData(pool, r.np_rng_state)
         IN  [on |-> TRUE, order |-> order, pos |-> 1, np_rng_state |-> Advance(r.np_rng_state, ShuffleDraws(order)), example |-> order[1]]
    ELSE [r EXCEPT !.pos = @ + 1, !.example = r.order[r.pos + 1]]

(***************************************************************************)
(* train, lines 214-249: one example, the progress record, the test for a  *)
(* periodic evaluation                                                     *)
(***************************************************************************)
TrainStep ==
    /\ pc = "loop"
    /\ pos < Len(train_data)
    /\ \E absent \in BOOLEAN :
        LET h == handle_example(self, absent)
        IN  /\ self' = h.self
            /\ absent_losses' = IF absent THEN absent_losses + 1 ELSE absent_losses
            /\ step' = [loss |-> h.loss, ops |-> h.ops, example |-> train_data[pos + 1]]
            /\ error' = IF LogRaises(h.self, h.loss) THEN "TypeError" ELSE ""
            /\ pc' = IF error' # "" THEN "error" ELSE IF EvalDue(h.self) THEN "eval" ELSE "loop"
    /\ pos' = pos + 1
    /\ ref' = IF ref.on THEN RefStep(ref, cfg.pool) ELSE ref
    /\ last_op' = "train_step"
    /\ UNCHANGED <<cfg, eval_model, last_file, best_file, train_data, fscore, report, conll_calls, restarts, saved, evalvars>>

(***************************************************************************)
(* train, lines 250-259: the periodic evaluation and the stopping tests    *)
(***************************************************************************)
PeriodicEval ==
    /\ pc = "eval"
    /\ \E m \in [DatasetSet -> Scores], path_exists_bool \in [DatasetSet -> BOOLEAN], conll \in {o \in ConllOutcomes : o.raises = ""} :
        LET ev == [d \in DatasetSet |-> evaluate_model(m[d], FALSE, canonical_cluster_threshold[d], path_exists_bool[d], conll)]
            fscore_dict == [d \in DatasetSet |-> ev[d].result_dict.fscore]
            p == periodic_model_eval(self, fscore_dict, cfg, best_file, last_file)
        IN  /\ self' = p.self
            /\ fscore' = p.fscore
            /\ best_file' = p.best
            /\ last_file' = p.last
            /\ conll_calls' = conll_calls + SumOver([d \in DatasetSet |-> ev[d].conll], Datasets)
            /\ saved' = IF cfg.to_save_model THEN [train_info |-> p.self.train_info, rng_state |-> p.self.rng_state, np_rng_state |-> p.self.np_rng_state, absent_losses |-> absent_losses] ELSE saved
            /\ error' = FirstError(ev, Datasets)
            /\ pc' = IF error' # "" THEN "error" ELSE IF ShouldReturn(p.self, cfg.patience) THEN "trained" ELSE "loop"
    /\ last_op' = "periodic_eval"
    /\ UNCHANGED <<cfg, eval_model, train_data, pos, step, report, restarts, ref, absent_losses, evalvars>>

(***************************************************************************)
(* Experiment.__init__, line 77: the best model is loaded after training   *)
(***************************************************************************)
LoadBest ==
    /\ pc = "trained"
    /\ IF best_file = <<>>
       THEN /\ error' = "FileNotFoundError"
            /\ pc' = "error"
            /\ self' = self
       ELSE /\ error' = load_model_raises(best_file[1])
            /\ pc' = IF error' = "" THEN "final" ELSE "error"
            /\ self' = load_model(self, best_file[1], "best")
    /\ last_op' = "load_best"
    /\ UNCHANGED <<cfg, eval_model, last_file, best_file, train_data, pos, step, fscore, report, conll_calls, restarts, saved, ref, absent_losses, evalvars>>

(***************************************************************************)
(* perform_final_eval, lines 409-438: every dataset's test split           *)
(* (evaluate_conll has an outcome only where it is called; a periodic      *)
(* evaluation, with final_eval False, never calls it)                      *)
(***************************************************************************)
PerformFinalEval ==
    /\ pc = "final"
    /\ \E m \in [DatasetSet -> TestScores], su \in ConllSetups, dir_exists \in [DatasetSet -> BOOLEAN], conll \in ConllOutcomes :
        LET pe == [d \in DatasetSet |-> PathExistsBool(su.conll_scorer, su.conll_data_dir, su.scorer_exists, dir_exists[d])]
            ev == [d \in DatasetSet |-> evaluate_model(m[d], TRUE, canonical_cluster_threshold[d], pe[d], conll)]
            called == \E d \in DatasetSet : UseConll(canonical_cluster_threshold[d]) /\ pe[d]
        IN  /\ called \/ conll.raises = ""
            /\ error' = FirstError(ev, Datasets)
            /\ report' = [done |-> error' = "", path_exists |-> pe, internal |-> m, raised |-> [d \in DatasetSet |-> ev[d].raised], result |-> [d \in DatasetSet |-> ev[d].result_dict]]
            /\ conll_calls' = conll_calls + SumOver([d \in DatasetSet |-> ev[d].conll], Datasets)
            /\ pc' = IF error' = "" THEN "done" ELSE "error"
    /\ last_op' = "final_eval"
    /\ UNCHANGED <<cfg, eval_model, self, last_file, best_file, train_data, pos, step, fscore, restarts, saved, ref, absent_losses, evalvars>>

(***************************************************************************)
(* The process ends (it finished, failed or was interrupted) and a new one *)
(* starts with the same configuration on the same disk                     *)
(***************************************************************************)
AfterLastSave == pc = "loop" /\ last_op = "periodic_eval" /\ cfg.to_save_model

Restart ==
    /\ pc \in {"train", "loop", "eval", "trained", "final", "done", "error"}
    /\ restarts < MaxRestarts
    /\ restarts' = restarts + 1
    /\ eval_model' \in BOOLEAN
    /\ ref' = IF AfterLastSave /\ ~eval_model'
              THEN [on |-> TRUE, order |-> train_data, pos |-> pos, np_rng_state |-> self.np_rng_state, example |-> 0]
              ELSE NoRef
    /\ pc' = "init"
    /\ error' = ""
    /\ self' = InitSelf
    /\ train_data' = <<>>
    /\ pos' = 0
    /\ step' = NoStep
    /\ fscore' = 0
    /\ report' = NoReport
    /\ conll_calls' = 0
    /\ absent_losses' = 0
    /\ last_op' = "restart"
    /\ UNCHANGED <<cfg, last_file, best_file, saved, evalvars>>

Next == Setup \/ NextEpoch \/ TrainStep \/ PeriodicEval \/ LoadBest \/ PerformFinalEval \/ Restart

Spec == Init /\ [][Next]_vars

(***************************************************************************)
(* Properties                                                              *)
(***************************************************************************)
TI(s) == s.train_info

(* C1: a periodic evaluation resets num_stuck_evals to 0 and sets val_perf *)
(* to the new mean fscore exactly when that fscore is strictly greater     *)
(* than val_perf; otherwise num_stuck_evals grows by exactly 1 and         *)
(* val_perf stays; a training step changes neither.                        *)
C1_StuckEvals ==
    [][ /\ last_op' = "periodic_eval" =>
            IF fscore' > TI(self).val_perf
            THEN TI(self').num_stuck_evals = 0 /\ TI(self').val_perf = fscore'
            ELSE TI(self').num_stuck_evals = TI(self).num_stuck_evals + 1 /\ TI(self').val_perf = TI(self).val_perf
        /\ last_op' = "train_step" =>
            TI(self').num_stuck_evals = TI(self).num_stuck_evals /\ TI(self').val_perf = TI(self).val_perf
      ]_vars

(* C1 witness: a second evaluation that improves after a stuck first one *)
C1_Witness ==
    /\ last_op = "periodic_eval"
    /\ TI(self).global_steps = 2 * self.eval_per_k_steps
    /\ TI(self).num_stuck_evals = 0
    /\ TI(self).val_perf = 1
    /\ fscore = 1

(* the stopping condition of the claim: patience reached or budget reached *)
Halted(s) == TI(s).num_stuck_evals >= cfg.patience \/ TI(s).global_steps >= s.eval_per_k_steps * cfg.max_evals

(* C2: no example is processed once num_stuck_evals has reached the        *)
(* patience or global_steps the budget eval_per_k_steps * max_evals;       *)
(* train returns after a periodic evaluation exactly when one of the two   *)
(* holds, and it returns at no other point.                                *)
C2_HaltsExactly ==
    [][ /\ last_op' = "train_step" => ~Halted(self)
        /\ last_op' = "periodic_eval" => (pc' = "trained" <=> Halted(self'))
        /\ (pc' = "trained" /\ pc # "trained") => last_op' = "periodic_eval"
      ]_vars

(* C2 witness: train has returned on patience with budget left *)
C2_Witness ==
    /\ pc = "trained"
    /\ TI(self).num_stuck_evals = cfg.patience
    /\ TI(self).global_steps < self.num_training_steps

(* C3: an example whose loss is absent never ends the run in an error: the *)
(* controller goes on to the next example or to the periodic evaluation.   *)
C3_AbsentLossNonFatal == (last_op = "train_step" /\ step.loss = "None") => (pc \in {"loop", "eval"} /\ error = "")

StepOpNames(st) == {st.ops[i][1] : i \in 1..Len(st.ops)}

(* C4: a step whose loss is absent increases global_steps by exactly 1 and *)
(* performs no backward pass, unscale, clip, optimizer step, scheduler     *)
(* step or scaler update: optimizer, scheduler and scaler states and the   *)
(* weights are the same after the step as before.                          *)
C4_AbsentLossFrame ==
    [][ (last_op' = "train_step" /\ step'.loss = "None") =>
            /\ TI(self').global_steps = TI(self).global_steps + 1
            /\ self'.optimizer = self.optimizer
            /\ self'.optim_scheduler = self.optim_scheduler
            /\ self'.scaler = self.scaler
            /\ self'.model = self.model
            /\ StepOpNames(step') \cap {"backward", "unscale_", "clip_grad_norm_", "optimizer.step", "scheduler.step", "scaler.update"} = {}
      ]_vars

(* C4 witness: an absent loss after a step that did update the optimizers *)
C4_Witness ==
    /\ last_op = "train_step"
    /\ step.loss = "None"
    /\ self.scaler > 0
    /\ cfg.finetune
    /\ pc = "loop"

(* C5 (as claimed): a "best"-type load leaves TrainInfo, both RNG states,  *)
(* every optimizer and scheduler state and the scaler state unchanged.     *)
C5_BestLoadWeightsOnly ==
    [][ (last_op' = "load_best" /\ pc' = "final") =>
            /\ self'.train_info = self.train_info
            /\ self'.rng_state = self.rng_state
            /\ self'.np_rng_state = self.np_rng_state
            /\ self'.optimizer = self.optimizer
            /\ self'.optim_scheduler = self.optim_scheduler
            /\ self'.scaler = self.scaler
      ]_vars

(* C5, the part that holds: a "best"-type load leaves every optimizer state, *)
(* every scheduler state and the scaler state unchanged; it replaces TrainInfo *)
(* and the global and numeric RNG states by the checkpoint's, and restores *)
(* the weights the checkpoint holds.                                       *)
C5_BestLoadKeepsOptimizers ==
    [][ (last_op' = "load_best" /\ pc' = "final") =>
            /\ self'.optimizer = self.optimizer
            /\ self'.optim_scheduler = self.optim_scheduler
            /\ self'.scaler = self.scaler
            /\ self'.train_info = best_file[1].train_info
            /\ self'.rng_state = best_file[1].rng_state
            /\ self'.np_rng_state = best_file[1].np_rng_state
            /\ \A k \in DOMAIN best_file[1].model : self'.model[k] = best_file[1].model[k]
      ]_vars

(* C5 witness: the best checkpoint is loaded after training went on past   *)
(* it: the scaler and TrainInfo in memory are ahead of the checkpoint's    *)
C5_Witness ==
    /\ last_op = "load_best"
    /\ pc = "final"
    /\ self.scaler > best_file[1].scaler
    /\ self.train_info = best_file[1].train_info
    /\ self.train_info.global_steps < self.num_training_steps

(* C6: after an interruption right after a "last" checkpoint was written   *)
(* and a restart from it, every training step processes the example the    *)
(* uninterrupted run processes at that step.                               *)
C6_ResumeIdentical == (ref.on /\ last_op = "train_step") => step.example = ref.example

(* C7: a load of the "last" checkpoint leaves TrainInfo and the global and *)
(* numeric RNG states equal to the controller's values at the time of the  *)
(* save that wrote it.                                                     *)
C7_RoundTrip ==
    (last_op = "setup" /\ ~eval_model /\ last_file # <<>> /\ {"rng_state", "np_rng_state"} \subseteq DOMAIN last_file[1]) =>
        /\ self.train_info = saved.train_info
        /\ self.rng_state = saved.rng_state
        /\ self.np_rng_state = saved.np_rng_state

(* C7 witness: a restart loaded a checkpoint whose TrainInfo and RNG       *)
(* states are not the ones a new process starts with                       *)
C7_Witness ==
    /\ last_op = "setup"
    /\ ~eval_model
    /\ last_file # <<>>
    /\ {"rng_state", "np_rng_state"} \subseteq DOMAIN last_file[1]
    /\ self.train_info.global_steps > 0
    /\ self.rng_state # seed
    /\ self.np_rng_state # seed
    /\ self.train_info = last_file[1].train_info

(* C8: when training returns a "best" checkpoint exists, and the load of   *)
(* the best checkpoint after training never fails.                         *)
C8_BestExistsAfterTraining ==
    /\ pc = "trained" => best_file # <<>>
    /\ ~(last_op = "load_best" /\ pc = "error")

(* C9: no load path (resume from "last", "best" after training, the        *)
(* evaluation set-up from "best") fails on weight keys that are missing    *)
(* from the checkpoint.                                                    *)
C9_LenientOnEveryPath == error # "RuntimeError"

(* C10: in the final evaluation, for every dataset whose scorer and        *)
(* reference path are configured and on disk, the external scorer is       *)
(* invoked and the result record is the external scorer's; a periodic      *)
(* evaluation never invokes the external scorer.                           *)
C10_ExternalScorerPreferred ==
    /\ report.done =>
           \A d \in DatasetSet : report.path_exists[d] =>
               /\ conll_calls > 0
               /\ report.result[d] \in {ConllResult(ConllResults(c)) : c \in ConllScores}
    /\ last_op = "periodic_eval" => conll_calls = 0

(* C11: when the external scorer is invoked and fails (it cannot be run,   *)
(* or its output does not parse), the final evaluation still completes and *)
(* the record of that dataset is the internally computed one in every      *)
(* field.                                                                  *)
C11_ScorerFailureNonFatal ==
    \A d \in DatasetSet : report.raised[d] # "" =>
        /\ pc = "done"
        /\ error = ""
        /\ report.result[d] = InternalResult(report.internal[d])

(* C11: the case of the claim, a final evaluation in which a call of the   *)
(* external scorer failed                                                  *)
C11_ScorerFailed == \E d \in DatasetSet : report.raised[d] # ""

(* C12: a start-up that loads a "last" checkpoint whose num_stuck_evals is *)
(* at or above the patience, or whose global_steps is at or above the step *)
(* budget, goes directly to the final evaluation on the "best" checkpoint  *)
(* with global_steps as loaded; a start-up without a "last" checkpoint     *)
(* succeeds and training starts from the initial TrainInfo.                *)
C12_HaltedStartGoesToFinalEval ==
    (last_op = "setup" /\ ~eval_model) =>
        /\ (/\ last_file # <<>>
            /\ \/ last_file[1].train_info.num_stuck_evals >= cfg.patience
               \/ last_file[1].train_info.global_steps >= self.num_training_steps)
           => /\ pc = "final"
              /\ error = ""
              /\ best_file # <<>>
              /\ self.train_info = last_file[1].train_info
        /\ last_file = <<>>
           => /\ pc = "train"
              /\ error = ""
              /\ self.train_info = InitTrainInfo

(* C13: across every transition of a run of the controller (set-up, resume *)
(* from "last", training steps, periodic evaluations, the load of the      *)
(* "best" checkpoint, final evaluation) global_steps never decreases; the  *)
(* start of a new process is not a transition of a run.                    *)
C13_GlobalStepsMonotonic ==
    [][ last_op' # "restart" => self'.train_info.global_steps >= self.train_info.global_steps ]_vars

(* C14: a "last" save holds one optimizer state and one scheduler state    *)
(* for exactly each active parameter group ('mem', plus 'doc' iff          *)
(* fine-tuning), a "best" save holds none; both hold the scaler state, the *)
(* global and numeric RNG states, TrainInfo and the hyperparameter record  *)
(* of the controller that saved them.                                      *)
ActiveGroups == {"mem"} \cup (IF cfg.finetune THEN {"doc"} ELSE {})

AlwaysSaved(c, s) ==
    /\ {"scaler", "rng_state", "np_rng_state", "train_info", "model_args", "optimizer", "scheduler"} \subseteq DOMAIN c
    /\ c.scaler = s.scaler
    /\ c.rng_state = s.rng_state
    /\ c.np_rng_state = s.np_rng_state
    /\ c.train_info = s.train_info
    /\ c.model_args = cfg

C14_OptimizerStateInLastOnly ==
    [][ /\ last_file' # last_file =>
            /\ AlwaysSaved(last_file'[1], self')
            /\ DOMAIN last_file'[1].optimizer = ActiveGroups
            /\ DOMAIN last_file'[1].scheduler = ActiveGroups
            /\ \A g \in ActiveGroups : /\ last_file'[1].optimizer[g] = self'.optimizer[g]
                                       /\ last_file'[1].scheduler[g] = self'.optim_scheduler[g]
        /\ best_file' # best_file =>
            /\ AlwaysSaved(best_file'[1], self')
            /\ DOMAIN best_file'[1].optimizer = {}
            /\ DOMAIN best_file'[1].scheduler = {}
      ]_vars

(* C14 witness: one periodic evaluation of a fine-tuning run wrote both    *)
(* the "best" and the "last" checkpoint                                    *)
C14_Witness ==
    /\ last_op = "periodic_eval"
    /\ cfg.finetune
    /\ best_file # <<>>
    /\ last_file # <<>>
    /\ best_file[1].train_info = self.train_info
    /\ last_file[1].train_info = self.train_info
    /\ DOMAIN last_file[1].optimizer = {"mem", "doc"}

Lacks(checkpoint) == ~({"rng_state", "np_rng_state"} \subseteq DOMAIN checkpoint)

(* C15: a training start-up that finds a "last" checkpoint without the     *)
(* global or the numeric RNG state ends in an error; training does not     *)
(* start from that checkpoint.                                             *)
C15_MissingRngFatal ==
    (~eval_model /\ last_file # <<>> /\ Lacks(last_file[1])) =>
        /\ pc \in {"init", "error"}
        /\ pc = "error" => error = "KeyError"

(* C15 witness: the start-up loaded a checkpoint without RNG state and     *)
(* failed                                                                  *)
C15_Witness ==
    /\ last_op = "setup"
    /\ ~eval_model
    /\ last_file # <<>>
    /\ Lacks(last_file[1])
    /\ pc = "error"
    /\ cfg.eval_per_k_steps # None

(* C16: a periodic evaluation is executed immediately after a training     *)
(* step if and only if global_steps after that step is a multiple of       *)
(* eval_per_k_steps, whether or not the loss of the step was absent.       *)
C16_EvalEveryKSteps ==
    last_op = "train_step" =>
        (pc = "eval" <=> self.train_info.global_steps % self.eval_per_k_steps = 0)

(* C17: in every reachable state the optimizer and the scheduler of each   *)
(* active group have been stepped the same number of times, the number of  *)
(* training examples that produced a usable loss: global_steps minus the   *)
(* number of absent-loss examples.                                         *)
C17_Lockstep ==
    \A g \in DOMAIN self.optimizer :
        /\ self.optimizer[g] = self.optim_scheduler[g]
        /\ self.optimizer[g] = self.train_info.global_steps - absent_losses

(* the positions in the last step at which operation op was applied to     *)
(* target                                                                  *)
At(op, target) == {i \in 1..Len(step.ops) : step.ops[i] = <<op, target>>}

Once(op, target) == Cardinality(At(op, target)) = 1

Before(S, T) == \A i \in S, j \in T : i < j

AllAt(op) == {i \in 1..Len(step.ops) : step.ops[i][1] = op}

(* C18: in a training step with a usable loss the gradients of every       *)
(* optimizer group are zeroed, then the forward pass runs, then the loss   *)
(* is backpropagated, then the gradients of every group are unscaled, then *)
(* the encoder group and the task group are each clipped, then every       *)
(* optimizer is stepped, each followed at once by its scheduler, and the   *)
(* scaler is updated exactly once as the last operation.                   *)
C18_StepOrder ==
    (last_op = "train_step" /\ step.loss = "value") =>
        /\ \A g \in DOMAIN self.optimizer :
            /\ Once("zero_grad", g)
            /\ Once("unscale_", g)
            /\ Once("optimizer.step", g)
            /\ Once("scheduler.step", g)
            /\ \A i \in At("optimizer.step", g) : At("scheduler.step", g) = {i + 1}
        /\ Cardinality(AllAt("zero_grad")) = Cardinality(DOMAIN self.optimizer)
        /\ Cardinality(AllAt("unscale_")) = Cardinality(DOMAIN self.optimizer)
        /\ Cardinality(AllAt("optimizer.step")) = Cardinality(DOMAIN self.optimizer)
        /\ Cardinality(AllAt("scheduler.step")) = Cardinality(DOMAIN self.optimizer)
        /\ Once("forward", "")
        /\ Once("backward", "")
        /\ Once("clip_grad_norm_", "encoder_params")
        /\ Once("clip_grad_norm_", "task_params")
        /\ Cardinality(AllAt("clip_grad_norm_")) = 2
        /\ At("scaler.update", "") = {Len(step.ops)}
        /\ Before(AllAt("zero_grad"), AllAt("forward"))
        /\ Before(AllAt("forward"), AllAt("backward"))
        /\ Before(AllAt("backward"), AllAt("unscale_"))
        /\ Before(AllAt("unscale_"), AllAt("clip_grad_norm_"))
        /\ Before(AllAt("clip_grad_norm_"), AllAt("optimizer.step"))
        /\ Before(AllAt("unscale_"), AllAt("optimizer.step"))

(* C18 witness: a step with a usable loss of a fine-tuning run, with two   *)
(* optimizer groups                                                        *)
C18_Witness ==
    /\ last_op = "train_step"
    /\ step.loss = "value"
    /\ DOMAIN self.optimizer = {"mem", "doc"}
    /\ Len(step.ops) = 13

(***************************************************************************)
(* One call of evaluate_model, example by example                          *)
(***************************************************************************)
MaxDocs == 1

(* the mention spans the model proposes for an example, in document order *)
pred_mentions == <<"A", "B">>

Mentions == Range(pred_mentions)

(* one action per mention: open a new cluster, attach to the cluster       *)
(* opened first, or ignore the mention                                     *)
ActionChoices == {[kind |-> "new", target |-> 0], [kind |-> "attach", target |-> 1], [kind |-> "ignore", target |-> 0]}

ActionSeqs == [1..Len(pred_mentions) -> ActionChoices]

(* example["clusters"]: the gold clusters of an example *)
GoldChoices == {<<{"A", "B"}>>, <<{"A"}, {"B"}>>}

Thresholds == {1, 2}

(* action_sequences_to_clusters: "new" opens a cluster holding the         *)
(* mention, "attach" adds the mention to the cluster its target names, an  *)
(* ignored or invalid action adds the mention to no cluster                *)
RECURSIVE Reconstruct(_, _, _, _)
Reconstruct(actions, mentions, i, clusters) ==
    IF i > Len(mentions) \/ i > Len(actions) THEN clusters
    ELSE LET a == actions[i]
         IN  IF a.kind = "new" THEN Reconstruct(actions, mentions, i + 1, Append(clusters, {mentions[i]}))
             ELSE IF a.kind = "attach" /\ a.target \in 1..Len(clusters)
             THEN Reconstruct(actions, mentions, i + 1, [clusters EXCEPT ![a.target] = @ \cup {mentions[i]}])
             ELSE Reconstruct(actions, mentions, i + 1, clusters)

action_sequences_to_clusters(actions, mentions) == Reconstruct(actions, mentions, 1, <<>>)

RECURSIVE KeepAtLeast(_, _)
KeepAtLeast(clusters, threshold) ==
    IF clusters = <<>> THEN <<>>
    ELSE IF Cardinality(Head(clusters)) >= threshold
    THEN <<Head(clusters)>> \o KeepAtLeast(Tail(clusters), threshold)
    ELSE KeepAtLeast(Tail(clusters), threshold)

(* get_mention_to_cluster: the clusters with at least threshold mentions,  *)
(* and the map from each of their mentions to its cluster                  *)
get_mention_to_cluster(clusters, threshold) ==
    LET kept == KeepAtLeast(clusters, threshold)
        members == UNION Range(kept)
    IN  [clusters |-> kept,
         mention_to_cluster |-> [m \in members |-> CHOOSE c \in Range(kept) : m \in c]]

(* CorefEvaluator(): running sums of numerators and denominators *)
CorefEvaluator == [p_num |-> 0, p_den |-> 0, r_num |-> 0, r_den |-> 0]

(* numerators are kept in units of 1/Scale: every cluster size divides it *)
Scale == Cardinality(Mentions)

(* the sum over the mentions of one side of the overlap ratio of the       *)
(* mention's cluster with its cluster on the other side (B-cubed)          *)
RECURSIVE Overlap(_, _, _)
Overlap(todo, mention_to_a, mention_to_b) ==
    IF todo = {} THEN 0
    ELSE LET m == CHOOSE x \in todo : TRUE
             a == mention_to_a[m]
             b == IF m \in DOMAIN mention_to_b THEN mention_to_b[m] ELSE {}
         IN  (Scale * Cardinality(a \cap b)) \div Cardinality(a) + Overlap(todo \ {m}, mention_to_a, mention_to_b)

(* CorefEvaluator.update: one (predicted, gold, mention->predicted,        *)
(* mention->gold) tuple is added to the sums                               *)
update(acc, predicted, gold, mention_to_predicted, mention_to_gold) ==
    [p_num |-> acc.p_num + Overlap(DOMAIN mention_to_predicted, mention_to_predicted, mention_to_gold),
     p_den |-> acc.p_den + Cardinality(DOMAIN mention_to_predicted),
     r_num |-> acc.r_num + Overlap(DOMAIN mention_to_gold, mention_to_gold, mention_to_predicted),
     r_den |-> acc.r_den + Cardinality(DOMAIN mention_to_gold)]

(* CorefEvaluator.get_f1() * 100, cut to an integer *)
get_f1(acc) ==
    IF acc.p_num = 0 \/ acc.r_num = 0 THEN 0
    ELSE (200 * acc.p_num * acc.r_num) \div (Scale * (acc.p_num * acc.r_den + acc.r_num * acc.p_den))

NewRun == [evaluator |-> CorefEvaluator, oracle_evaluator |-> CorefEvaluator, num_gt_clusters |-> 0, num_pred_clusters |-> 0]

(* the loop body with the oracle clusters filtered with threshold 1 *)
evaluate_example_OracleUnfiltered(run, example, action_list, gt_actions, cluster_threshold) ==
    LET raw_predicted_clusters == action_sequences_to_clusters(action_list, pred_mentions)
        predicted == get_mention_to_cluster(raw_predicted_clusters, cluster_threshold)
        gold == get_mention_to_cluster(example.clusters, cluster_threshold)
        raw_oracle_clusters == action_sequences_to_clusters(gt_actions, pred_mentions)
        oracle == get_mention_to_cluster(raw_oracle_clusters, 1)
    IN  [run |-> [evaluator |-> update(run.evaluator, predicted.clusters, gold.clusters, predicted.mention_to_cluster, gold.mention_to_cluster),
                  oracle_evaluator |-> update(run.oracle_evaluator, oracle.clusters, gold.clusters, oracle.mention_to_cluster, gold.mention_to_cluster),
                  num_gt_clusters |-> run.num_gt_clusters + Len(gold.clusters),
                  num_pred_clusters |-> run.num_pred_clusters + Len(predicted.clusters)],
         handed |-> [raw_predicted_clusters |-> raw_predicted_clusters, raw_gold_clusters |-> example.clusters, raw_oracle_clusters |-> raw_oracle_clusters,
                     predicted_clusters |-> predicted.clusters, mention_to_predicted |-> predicted.mention_to_cluster,
                     gold_clusters |-> gold.clusters, mention_to_gold |-> gold.mention_to_cluster,
                     oracle_clusters |-> oracle.clusters, mention_to_oracle |-> oracle.mention_to_cluster]]

(* evaluate_model, lines 312-338: the loop body for one example; the model *)
(* returned action_list and gt_actions for it                              *)
evaluate_example(run, example, action_list, gt_actions, cluster_threshold) ==
    LET raw_predicted_clusters == action_sequences_to_clusters(action_list, pred_mentions)
        predicted == get_mention_to_cluster(raw_predicted_clusters, cluster_threshold)
        gold == get_mention_to_cluster(example.clusters, cluster_threshold)
        raw_oracle_clusters == action_sequences_to_clusters(gt_actions, pred_mentions)
        oracle == get_mention_to_cluster(raw_oracle_clusters, cluster_threshold)
    IN  [run |-> [evaluator |-> update(run.evaluator, predicted.clusters, gold.clusters, predicted.mention_to_cluster, gold.mention_to_cluster),
                  oracle_evaluator |-> update(run.oracle_evaluator, oracle.clusters, gold.clusters, oracle.mention_to_cluster, gold.mention_to_cluster),
                  num_gt_clusters |-> run.num_gt_clusters + Len(gold.clusters),
                  num_pred_clusters |-> run.num_pred_clusters + Len(predicted.clusters)],
         handed |-> [raw_predicted_clusters |-> raw_predicted_clusters, raw_gold_clusters |-> example.clusters, raw_oracle_clusters |-> raw_oracle_clusters,
                     predicted_clusters |-> predicted.clusters, mention_to_predicted |-> predicted.mention_to_cluster,
                     gold_clusters |-> gold.clusters, mention_to_gold |-> gold.mention_to_cluster,
                     oracle_clusters |-> oracle.clusters, mention_to_oracle |-> oracle.mention_to_cluster]]

(* the record built from the oracle evaluator *)
internal_result_dict_FromOracle(run) == InternalResult(get_f1(run.oracle_evaluator))

(* evaluate_model, lines 357-368: result_dict is built from evaluator; the *)
(* oracle evaluator is only logged, line 401                               *)
internal_result_dict(run) == InternalResult(get_f1(run.evaluator))

(* periodic_model_eval and the stopping tests of train, for a dev          *)
(* evaluation that returned result_dict for every dataset                  *)
EvalOutcome(s, result_dict, model_args) ==
    LET p == periodic_model_eval(s, [d \in DatasetSet |-> result_dict.fscore], model_args, <<>>, <<>>)
    IN  [result_dict |-> result_dict,
         train_info |-> p.self.train_info,
         best_saved |-> p.best # <<>>,
         stop |-> ShouldReturn(p.self, model_args.patience)]

(* configurations of a fresh training run that evaluates after every step  *)
(* and stops at the first evaluation that does not improve                 *)
EvalConfigs == {c \in Configs : c.patience = 1 /\ c.eval_per_k_steps = 1 /\ c.max_evals = MaxEvals /\ ~c.finetune /\ c.to_save_model /\ c.pool = MaxPool}

(* the controller after the first training step of a fresh run, when the   *)
(* first periodic evaluation is due                                        *)
InitEval ==
    /\ cfg \in EvalConfigs
    /\ eval_model = FALSE
    /\ pc = "eval"
    /\ error = ""
    /\ train_data = EpochData(cfg.pool, seed)
    /\ LET s0 == setup_training(InitSelf, cfg, <<>>).self
           s1 == [s0 EXCEPT !.np_rng_state = Advance(@, ShuffleDraws(train_data))]
           h == handle_example(s1, FALSE)
       IN  /\ self = h.self
           /\ step = [loss |-> h.loss, ops |-> h.ops, example |-> train_data[1]]
    /\ last_file = <<>>
    /\ best_file = <<>>
    /\ pos = 1
    /\ fscore = 0
    /\ report = NoReport
    /\ conll_calls = 0
    /\ last_op = "train_step"
    /\ restarts = 0
    /\ saved = NoSaved
    /\ ref = NoRef
    /\ absent_losses = 0
    /\ ev_pc = "examples"
    /\ ev_threshold \in Thresholds
    /\ ev_docs = 0
    /\ ev_runs = <<NewRun, NewRun>>
    /\ ev_handed = <<>>
    /\ ev_out = <<>>

(* evaluate_model, lines 311-338: the next example of the split; the two   *)
(* evaluations get the same example and the same action_list, and each its *)
(* own gt_actions                                                          *)
EvalExample ==
    /\ ev_pc = "examples"
    /\ ev_docs < MaxDocs
    /\ \E clusters \in GoldChoices, action_list \in ActionSeqs, gt_actions \in ActionSeqs, gt_actions_alt \in ActionSeqs :
        LET example == [clusters |-> clusters]
            e1 == evaluate_example(ev_runs[1], example, action_list, gt_actions, ev_threshold)
            e2 == evaluate_example(ev_runs[2], example, action_list, gt_actions_alt, ev_threshold)
        IN  /\ ev_runs' = <<e1.run, e2.run>>
            /\ ev_handed' = <<e1.handed>>
    /\ ev_docs' = ev_docs + 1
    /\ UNCHANGED <<cfg, eval_model, pc, error, self, last_file, best_file, train_data, pos, step, fscore, report, conll_calls, last_op, restarts, saved, ref, absent_losses, ev_pc, ev_threshold, ev_out>>

(* evaluate_model, lines 356-407, and its caller periodic_model_eval: the  *)
(* split is exhausted, the result record is built and used                 *)
EvalFinish ==
    /\ ev_pc = "examples"
    /\ ev_docs > 0
    /\ ev_out' = <<EvalOutcome(self, internal_result_dict(ev_runs[1]), cfg), EvalOutcome(self, internal_result_dict(ev_runs[2]), cfg)>>
    /\ ev_pc' = "done"
    /\ UNCHANGED <<cfg, eval_model, pc, error, self, last_file, best_file, train_data, pos, step, fscore, report, conll_calls, last_op, restarts, saved, ref, absent_losses, ev_threshold, ev_docs, ev_runs, ev_handed>>

NextEval == EvalExample \/ EvalFinish

SpecEval == InitEval /\ [][NextEval]_vars

(* C19: two evaluations that differ only in the ground-truth action        *)
(* sequences the model returns produce the same result record, the same    *)
(* TrainInfo update, the same decision to persist a "best" checkpoint and  *)
(* the same stopping decision.                                             *)
C19_OracleNotUsed ==
    ev_pc = "done" =>
        /\ ev_out[1].result_dict = ev_out[2].result_dict
        /\ ev_out[1].train_info = ev_out[2].train_info
        /\ ev_out[1].best_saved = ev_out[2].best_saved
        /\ ev_out[1].stop = ev_out[2].stop

(* C19 witness: the two evaluations finished with different oracle scores, *)
(* and the score they share improved on val_perf                           *)
C19_Witness ==
    /\ ev_pc = "done"
    /\ get_f1(ev_runs[1].oracle_evaluator) # get_f1(ev_runs[2].oracle_evaluator)
    /\ get_f1(ev_runs[1].oracle_evaluator) # get_f1(ev_runs[1].evaluator)
    /\ ev_out[1].best_saved
    /\ ~ev_out[1].stop

SizesAtLeast(clusters, t) == {c \in Range(clusters) : Cardinality(c) >= t}

(* the clusters handed over are the raw clusters of size >= t, and the map *)
(* sends exactly their mentions each to its cluster                        *)
Filtered(raw, clusters, mention_to_cluster, t) ==
    /\ Range(clusters) = SizesAtLeast(raw, t)
    /\ Len(clusters) = Cardinality(SizesAtLeast(raw, t))
    /\ DOMAIN mention_to_cluster = UNION SizesAtLeast(raw, t)
    /\ \A m \in DOMAIN mention_to_cluster : m \in mention_to_cluster[m] /\ mention_to_cluster[m] \in SizesAtLeast(raw, t)

(* C20: for every example and every threshold t of the call, the           *)
(* predicted, the gold and the oracle clusters handed to the evaluators    *)
(* are each the raw clusters of size >= t: none of them is dropped, and no *)
(* smaller cluster is in the clusters or in a mention-to-cluster map.      *)
C20_SameThresholdEverywhere ==
    ev_handed # <<>> =>
        /\ Filtered(ev_handed[1].raw_predicted_clusters, ev_handed[1].predicted_clusters, ev_handed[1].mention_to_predicted, ev_threshold)
        /\ Filtered(ev_handed[1].raw_gold_clusters, ev_handed[1].gold_clusters, ev_handed[1].mention_to_gold, ev_threshold)
        /\ Filtered(ev_handed[1].raw_oracle_clusters, ev_handed[1].oracle_clusters, ev_handed[1].mention_to_oracle, ev_threshold)

(* C20 witness: gold clusters {{A},{B}} with threshold 2: the evaluators   *)
(* are handed no gold cluster and an empty map, while singleton oracle     *)
(* clusters were dropped as well                                           *)
C20_Witness ==
    /\ ev_handed # <<>>
    /\ ev_threshold = 2
    /\ ev_docs = 1
    /\ ev_handed[1].raw_gold_clusters = <<{"A"}, {"B"}>>
    /\ ev_handed[1].gold_clusters = <<>>
    /\ DOMAIN ev_handed[1].mention_to_gold = {}
    /\ ev_runs[1].num_gt_clusters = 0
    /\ Len(ev_handed[1].raw_oracle_clusters) = 2
    /\ ev_handed[1].oracle_clusters = <<>>

(***************************************************************************)
(* One uninterrupted run of the controller: the single thread of control   *)
(* takes its next step whenever it has one                                 *)
(***************************************************************************)
NextRun == Setup \/ NextEpoch \/ TrainStep \/ PeriodicEval \/ LoadBest \/ PerformFinalEval

SpecRun == Init /\ [][NextRun]_vars /\ WF_vars(NextRun)

(* C21: with eval_per_k_steps, max_evals and patience at least 1, train()  *)
(* eventually returns whatever the training pool, and when it returns on a *)
(* fresh run global_steps is at most eval_per_k_steps * max_evals.         *)
C21_TrainTerminates ==
    /\ (pc = "loop" /\ cfg.eval_per_k_steps # None) ~> (pc = "trained")
    /\ [](pc = "trained" => self.train_info.global_steps <= self.eval_per_k_steps * cfg.max_evals)

(* C22: across training steps, periodic evaluations, interruptions and     *)
(* restarts, a "best" checkpoint is never overwritten by one whose         *)
(* val_perf, the dev score of the model it holds, is lower.                *)
C22_BestNeverLowered ==
    [][ (best_file # <<>> /\ best_file' # best_file) =>
            best_file'[1].train_info.val_perf >= best_file[1].train_info.val_perf ]_vars

====
